---- MODULE Spec2Model ----
(***************************************************************************)
(* graphene_django_plus: permission-filtered queries and mutations.        *)
(*                                                                         *)
(* The stored collection is a table of Group rows (the model of the test   *)
(* schema, src/tests/schema.py) guarded by GroupPermission.  A row has an  *)
(* auto-increment id, a name and the set of users that belong to it.       *)
(*                                                                         *)
(* Every handler is one action: it reads the request, computes the         *)
(* response with the operators below (named after the source's functions)  *)
(* and leaves the request and the response in req and resp.  A raised      *)
(* exception is a response whose error field is not "none".                *)
(***************************************************************************)
EXTENDS Integers, Sequences, FiniteSets, TLC

\* Largest primary key the table hands out (the auto-increment counter stops here).
MaxId == 2

Ids == 1..MaxId
Actors == {"u1", "u2"}

\* Python's None and a present value.
None == <<>>
Some(v) == <<v>>

\* Text is a sequence of characters.  DISALLOW_CREATION stands for the
\* string "disallow_creation", shortened to one character.
DISALLOW_CREATION == <<"d">>
Names == {<<"a">>, DISALLOW_CREATION}
\* What a client may send as name: a stored name or the blank string.
InputNames == Names \cup {<<>>}

VARIABLES
    db,      \* the Group table: a set of rows [id, name, users]
    nextId,  \* the next primary key the table assigns
    req,     \* the request being answered (NoReq between requests)
    resp,    \* its response
    pre,     \* the table as the handler of req found it
    deleted, \* the ids a delete mutation has removed so far
    walk,    \* a client that follows the pages of one list, and what it got
    pending  \* a mutation of a second, concurrent request between its
             \* permission check and its write

vars == <<db, nextId, req, resp, pre, deleted, walk, pending>>

Rows == [id : Ids, name : Names, users : SUBSET Actors]

\* Model.objects.all()
objects_all(table) == table

\* Model.objects.filter(id=x).first() / Model.objects.get(pk=x): None when absent.
objects_get(table, id) ==
    IF \E g \in table : g.id = id
    THEN Some(CHOOSE g \in table : g.id = id)
    ELSE None

(***************************************************************************)
(* GroupPermission, the permission_class of the test schema.               *)
(***************************************************************************)
get_viewable(queryset, user) == {g \in queryset : user \in g.users}
get_changeable(queryset, user) == {g \in queryset : user \in g.users}
get_deletable(queryset, user) == {g \in queryset : user \in g.users}
can_add_anything(user, obj) == TRUE

can_add(user, obj) == obj.name # DISALLOW_CREATION

\* The base Permission class answers the instance checks from the query-time
\* filters of the bound queryset.
can_view(queryset, user, obj) == \E g \in get_viewable(queryset, user) : g.id = obj.id
can_change(queryset, user, obj) == \E g \in get_changeable(queryset, user) : g.id = obj.id
can_delete(queryset, user, obj) == \E g \in get_deletable(queryset, user) : g.id = obj.id

(***************************************************************************)
(* Responses.                                                              *)
(***************************************************************************)
\* error: "none" or the kind of exception raised; steps: what the handler did,
\* in order; ok/errors/result/edge: the mutation payload; node: the entity a
\* query returned; page: the connection a list query returned.
Resp(error, steps) ==
    [error |-> error, steps |-> steps, ok |-> None, errors |-> None,
     result |-> None, edge |-> None, node |-> None, page |-> None]

NoReq == [op |-> "init"]

(***************************************************************************)
(* PermissionedType: single-entity access.                                 *)
(***************************************************************************)
ensure_user_can_view_instance_skip(table, user, inst) == TRUE

\* TRUE when the check passes, FALSE when it raises the permission error.
ensure_user_can_view_instance(table, user, inst) ==
    can_view(objects_all(table), user, inst)

get_node(table, user, id) ==
    LET inst == objects_get(table, id) IN
    IF inst = None
    THEN Resp("DoesNotExist", <<"lookup">>)
    ELSE IF ~ensure_user_can_view_instance(table, user, inst[1])
         THEN Resp("PermissionDenied", <<"lookup", "can_view">>)
         ELSE [Resp("none", <<"lookup", "can_view">>) EXCEPT !.node = inst]

resolve_without_permission_check(table, user, inst) ==
    [Resp("none", <<"resolve">>) EXCEPT !.node = inst]

\* PermissionedTypeField: the field's own resolver gave inst (None for a null
\* relation); the check runs only on a present value.
resolve_with_permission_check(table, user, inst) ==
    IF inst # None /\ ~ensure_user_can_view_instance(table, user, inst[1])
    THEN Resp("PermissionDenied", <<"resolve", "can_view">>)
    ELSE [Resp("none", IF inst # None THEN <<"resolve", "can_view">> ELSE <<"resolve">>)
            EXCEPT !.node = inst]

(***************************************************************************)
(* Orderings and cursors (cursor_pagination.CursorPaginator, as used by    *)
(* get_paginator_for_queryset).                                            *)
(***************************************************************************)
\* orderBy tokens a client may send; "bogus" names no field of the model.
Tokens == {"id", "-id", "name", "-name", "bogus"}
Fields == {"id", "name"}

\* o.startswith('-') and o.lstrip('-')
startswith_dash(o) == o \in {"-id", "-name"}
lstrip_dash(o) == CASE o = "-id" -> "id" [] o = "-name" -> "name" [] OTHER -> o

Digits == <<"0", "1", "2", "3", "4", "5", "6", "7", "8", "9">>

\* str(n) for a non-negative integer.
RECURSIVE int_to_text(_)
int_to_text(n) ==
    IF n < 10 THEN <<Digits[n + 1]>>
    ELSE int_to_text(n \div 10) \o <<Digits[(n % 10) + 1]>>

\* six.text_type(getattr(instance, field))
attr_text(instance, field) ==
    IF field = "id" THEN int_to_text(instance.id) ELSE instance.name

\* None when an ordering token names no attribute (getattr raises).
position_from_instance(ordering, instance) ==
    IF \E i \in 1..Len(ordering) : lstrip_dash(ordering[i]) \notin Fields
    THEN None
    ELSE Some([i \in 1..Len(ordering) |-> attr_text(instance, lstrip_dash(ordering[i]))])

delimiter == "|"

\* delimiter.join(position)
RECURSIVE join(_)
join(position) ==
    IF position = <<>> THEN <<>>
    ELSE IF Len(position) = 1 THEN position[1]
    ELSE position[1] \o <<delimiter>> \o join(Tail(position))

\* base64 is a bijection between texts and well-formed cursors: the cursor of
\* a text carries the text.
b64encode(text) == [wellformed |-> TRUE, text |-> text]

\* A string that is no base64 of any utf-8 text.
Garbage == [wellformed |-> FALSE, text |-> <<>>]

encode_cursor(position) == b64encode(join(position))

\* CursorPaginator.__init__ raises when the directions of the tokens differ.
directions_match(ordering) ==
    \/ \A i \in 1..Len(ordering) : startswith_dash(ordering[i])
    \/ \A i \in 1..Len(ordering) : ~startswith_dash(ordering[i])

\* paginator.cursor(obj): None when no cursor can be computed.
paginator_cursor(ordering, instance) ==
    LET position == position_from_instance(ordering, instance) IN
    IF position = None THEN None ELSE Some(encode_cursor(position[1]))

(***************************************************************************)
(* PermissionedSerializerMutation: create and update.                      *)
(* input = [id, name, edge_cursor_order_by]; id and edge_cursor_order_by   *)
(* are None when the client left them out.  A result is the table and the  *)
(* counter after the handler, and the response.                            *)
(***************************************************************************)
Outcome(table, nid, r) == [db |-> table, nextId |-> nid, resp |-> r]

\* input.get(EDGE_ORDER_BY_INPUT_FIELD) is truthy
has_ordering(input) ==
    input.edge_cursor_order_by # None /\ input.edge_cursor_order_by[1] # <<>>

\* The serializer (an external validator): a blank name is the one invalid input.
is_valid(input) == input.name # <<>>
serializer_errors(input) ==
    IF input.name = <<>> THEN <<[field |-> "name", messages |-> <<"blank">>]>> ELSE <<>>

\* serializer.build_obj(): the unsaved candidate, without a primary key.
build_obj(input) == [id |-> 0, name |-> input.name, users |-> {}]

\* serializer.save(): insert the candidate under a fresh key, or write the
\* validated fields to the row of the loaded instance; instance.save() updates
\* the row with the instance's key and inserts it when no row has the key any
\* more (the memberships of a row live with the row).
serializer_save(table, nid, instance, input) ==
    IF instance = None
    THEN LET obj == [build_obj(input) EXCEPT !.id = nid] IN
         [db |-> table \cup {obj}, nextId |-> nid + 1, obj |-> obj]
    ELSE LET current == objects_get(table, instance[1].id)
             obj == [id |-> instance[1].id, name |-> input.name,
                     users |-> IF current = None THEN {} ELSE current[1].users]
         IN  [db |-> {g \in table : g.id # obj.id} \cup {obj}, nextId |-> nid, obj |-> obj]

\* _get_edge: None when the paginator cannot be built or the cursor computed.
get_edge(obj, ordering) ==
    IF ~directions_match(ordering) THEN None
    ELSE LET cursor == paginator_cursor(ordering, obj) IN
         IF cursor = None THEN None
         ELSE Some([node |-> obj, cursor |-> cursor[1]])

save_and_get_payload(table, nid, instance, input, steps) ==
    LET saved == serializer_save(table, nid, instance, input)
        done == Append(steps, "save")
    IN  IF has_ordering(input)
        THEN LET edge == get_edge(saved.obj, input.edge_cursor_order_by[1]) IN
             IF edge = None
             THEN Outcome(saved.db, saved.nextId, Resp("EdgeError", Append(done, "get_edge")))
             ELSE Outcome(saved.db, saved.nextId,
                    [Resp("none", Append(done, "get_edge")) EXCEPT
                        !.ok = Some(TRUE), !.result = Some(saved.obj), !.edge = edge])
        ELSE Outcome(saved.db, saved.nextId,
               [Resp("none", done) EXCEPT !.ok = Some(TRUE), !.result = Some(saved.obj)])

perform_mutate_unchecked(table, nid, user, instance, input, steps) ==
    save_and_get_payload(table, nid, instance, input, steps)

perform_mutate_checks_can_add(table, nid, user, instance, input, steps) ==
    LET obj == IF instance # None THEN instance[1] ELSE build_obj(input)
        checked == Append(steps, "can_add")
    IN  IF ~can_add(user, obj)
        THEN Outcome(table, nid, Resp("PermissionDenied", checked))
        ELSE save_and_get_payload(table, nid, instance, input, checked)

perform_mutate_saves_first(table, nid, user, instance, input, steps) ==
    LET obj == IF instance # None THEN instance[1] ELSE build_obj(input)
        out == save_and_get_payload(table, nid, instance, input, steps)
        has_permission ==
            IF obj.id # 0
            THEN can_change(objects_all(table), user, obj)
            ELSE can_add(user, obj)
        checked == Append(out.resp.steps, IF obj.id # 0 THEN "can_change" ELSE "can_add")
    IN  IF ~has_permission
        THEN Outcome(out.db, out.nextId, Resp("PermissionDenied", checked))
        ELSE [out EXCEPT !.resp.steps = checked]

perform_mutate(table, nid, user, instance, input, steps) ==
    LET obj == IF instance # None THEN instance[1] ELSE build_obj(input)
        queryset == objects_all(table)
        has_permission ==
            IF obj.id # 0
            THEN can_change(queryset, user, obj)
            ELSE can_add(user, obj)
        checked == Append(steps, IF obj.id # 0 THEN "can_change" ELSE "can_add")
    IN  IF ~has_permission
        THEN Outcome(table, nid, Resp("PermissionDenied", checked))
        ELSE save_and_get_payload(table, nid, instance, input, checked)

has_permission_granted(table, user, instance, input) == TRUE

\* perform_mutate's decision: can_change for a loaded instance, can_add for the
\* unsaved candidate.
has_permission(table, user, instance, input) ==
    LET obj == IF instance # None THEN instance[1] ELSE build_obj(input) IN
    IF obj.id # 0
    THEN can_change(objects_all(table), user, obj)
    ELSE can_add(user, obj)

\* get_serializer_kwargs: [error, instance, steps]; the table is read only
\* when the input carries the lookup field.
get_serializer_kwargs(table, input) ==
    IF input.id # None
    THEN LET instance == objects_get(table, input.id[1]) IN
         IF instance = None
         THEN [error |-> "DoesNotExist", instance |-> None, steps |-> <<"lookup">>]
         ELSE [error |-> "none", instance |-> instance, steps |-> <<"lookup">>]
    ELSE [error |-> "none", instance |-> None, steps |-> <<>>]

mutate_and_get_payload_late_edge_check(table, nid, user, input, wants_edge) ==
    LET kwargs == get_serializer_kwargs(table, input)
        steps == kwargs.steps
    IN  IF kwargs.error # "none"
        THEN Outcome(table, nid, Resp(kwargs.error, steps))
        ELSE IF is_valid(input)
        THEN LET out == perform_mutate(table, nid, user, kwargs.instance, input,
                                       Append(steps, "is_valid")) IN
             IF out.resp.error = "none" /\ wants_edge /\ ~has_ordering(input)
             THEN [out EXCEPT !.resp = Resp("MissingOrdering", Append(out.resp.steps, "edge_check"))]
             ELSE out
        ELSE Outcome(table, nid,
               [Resp("none", Append(steps, "is_valid")) EXCEPT
                   !.ok = Some(FALSE), !.errors = Some(serializer_errors(input))])

mutate_and_get_payload_skips_validation(table, nid, user, input, wants_edge) ==
    IF wants_edge /\ ~has_ordering(input)
    THEN Outcome(table, nid, Resp("MissingOrdering", <<"edge_check">>))
    ELSE LET kwargs == get_serializer_kwargs(table, input)
             steps == <<"edge_check">> \o kwargs.steps
         IN  IF kwargs.error # "none"
             THEN Outcome(table, nid, Resp(kwargs.error, steps))
             ELSE perform_mutate(table, nid, user, kwargs.instance, input, steps)

mutate_and_get_payload_validates_before_lookup(table, nid, user, input, wants_edge) ==
    IF wants_edge /\ ~has_ordering(input)
    THEN Outcome(table, nid, Resp("MissingOrdering", <<"edge_check">>))
    ELSE IF ~is_valid(input)
    THEN Outcome(table, nid,
           [Resp("none", <<"edge_check", "is_valid">>) EXCEPT
               !.ok = Some(FALSE), !.errors = Some(serializer_errors(input))])
    ELSE LET kwargs == get_serializer_kwargs(table, input)
             steps == <<"edge_check", "is_valid">> \o kwargs.steps
         IN  IF kwargs.error # "none"
             THEN Outcome(table, nid, Resp(kwargs.error, steps))
             ELSE perform_mutate(table, nid, user, kwargs.instance, input, steps)

mutate_and_get_payload(table, nid, user, input, wants_edge) ==
    IF wants_edge /\ ~has_ordering(input)
    THEN Outcome(table, nid, Resp("MissingOrdering", <<"edge_check">>))
    ELSE LET kwargs == get_serializer_kwargs(table, input)
             steps == <<"edge_check">> \o kwargs.steps
         IN  IF kwargs.error # "none"
             THEN Outcome(table, nid, Resp(kwargs.error, steps))
             ELSE IF is_valid(input)
             THEN perform_mutate(table, nid, user, kwargs.instance, input,
                                 Append(steps, "is_valid"))
             ELSE Outcome(table, nid,
                    [Resp("none", Append(steps, "is_valid")) EXCEPT
                        !.ok = Some(FALSE), !.errors = Some(serializer_errors(input))])

(***************************************************************************)
(* PermissionedDeletionMutation.mutate                                     *)
(***************************************************************************)
deletion_mutate_keeps_row(table, nid, user, id) ==
    LET obj == objects_get(table, id) IN
    IF obj = None
    THEN Outcome(table, nid, Resp("DoesNotExist", <<"lookup">>))
    ELSE IF ~can_delete(objects_all(table), user, obj[1])
         THEN Outcome(table, nid, Resp("PermissionDenied", <<"lookup", "can_delete">>))
         ELSE Outcome(table, nid,
                [Resp("none", <<"lookup", "can_delete", "delete">>) EXCEPT !.ok = Some(TRUE)])

deletion_mutate_unchecked(table, nid, user, id) ==
    LET obj == objects_get(table, id) IN
    IF obj = None
    THEN Outcome(table, nid, Resp("DoesNotExist", <<"lookup">>))
    ELSE Outcome(table \ {obj[1]}, nid,
           [Resp("none", <<"lookup", "delete">>) EXCEPT !.ok = Some(TRUE)])

deletion_mutate(table, nid, user, id) ==
    LET obj == objects_get(table, id) IN
    IF obj = None
    THEN Outcome(table, nid, Resp("DoesNotExist", <<"lookup">>))
    ELSE IF ~can_delete(objects_all(table), user, obj[1])
         THEN Outcome(table, nid, Resp("PermissionDenied", <<"lookup", "can_delete">>))
         ELSE Outcome(table \ {obj[1]}, nid,
                [Resp("none", <<"lookup", "can_delete", "delete">>) EXCEPT !.ok = Some(TRUE)])

(***************************************************************************)
(* Querysets.  A queryset is lazy: [rows, order_by] is evaluated when the  *)
(* paginator lists it.                                                     *)
(***************************************************************************)
QuerySet(rows, order_by) == [rows |-> rows, order_by |-> order_by]

Alphabet == <<"0", "1", "2", "3", "4", "5", "6", "7", "8", "9", "a", "d", "|">>
char_rank(c) == CHOOSE i \in 1..Len(Alphabet) : Alphabet[i] = c

\* s < t for texts, as the database collates them.
RECURSIVE text_less(_, _)
text_less(s, t) ==
    IF t = <<>> THEN FALSE
    ELSE IF s = <<>> THEN TRUE
    ELSE IF s[1] # t[1] THEN char_rank(s[1]) < char_rank(t[1])
    ELSE text_less(Tail(s), Tail(t))

\* The column value of a row: an integer for id, a text for name.
column(g, field) == IF field = "id" THEN g.id ELSE g.name

value_less(field, v, w) == IF field = "id" THEN v < w ELSE text_less(v, w)

\* g sorts strictly before h under ORDER BY ordering (each token with its own
\* direction).
RECURSIVE row_before(_, _, _)
row_before(ordering, g, h) ==
    IF ordering = <<>> THEN FALSE
    ELSE LET f == lstrip_dash(ordering[1])
             v == column(g, f)
             w == column(h, f)
         IN  IF v = w THEN row_before(Tail(ordering), g, h)
             ELSE IF startswith_dash(ordering[1]) THEN value_less(f, w, v)
             ELSE value_less(f, v, w)

valid_ordering(ordering) ==
    \A i \in 1..Len(ordering) : lstrip_dash(ordering[i]) \in Fields

\* Every listing the database may return for the rows under the ordering: rows
\* that tie under the ordering come in any order.
listings(rows, ordering) ==
    LET n == Cardinality(rows) IN
    {s \in [1..n -> rows] :
        /\ \A i, j \in 1..n : i # j => s[i] # s[j]
        /\ \A i, j \in 1..n : i < j => ~row_before(ordering, s[j], s[i])}

\* reverse_ordering(ordering): every token's direction flipped.
flip(o) ==
    CASE o = "id" -> "-id" [] o = "-id" -> "id"
      [] o = "name" -> "-name" [] o = "-name" -> "name" [] OTHER -> o
reverse_ordering(ordering) == [i \in 1..Len(ordering) |-> flip(ordering[i])]

reverse(s) == [i \in 1..Len(s) |-> s[Len(s) + 1 - i]]

\* s[:n] for n >= 0
take(s, n) == IF n >= Len(s) THEN s ELSE SubSeq(s, 1, n)

(***************************************************************************)
(* CursorPaginator.page and what it needs.                                 *)
(***************************************************************************)
\* text.split(delimiter)
RECURSIVE split_from(_, _)
split_from(text, current) ==
    IF text = <<>> THEN <<current>>
    ELSE IF text[1] = delimiter THEN <<current>> \o split_from(Tail(text), <<>>)
    ELSE split_from(Tail(text), Append(current, text[1]))
split(text) == split_from(text, <<>>)

\* decode_cursor: None when the cursor is no base64 text (InvalidCursor).
decode_cursor(cursor) ==
    IF cursor.wellformed THEN Some(split(cursor.text)) ELSE None

is_digit(c) == \E i \in 1..Len(Digits) : Digits[i] = c
digit_value(c) == (CHOOSE i \in 1..Len(Digits) : Digits[i] = c) - 1

RECURSIVE text_to_int(_, _)
text_to_int(text, acc) ==
    IF text = <<>> THEN acc
    ELSE text_to_int(Tail(text), 10 * acc + digit_value(text[1]))

\* The database casts a position text to the column's type: None when it cannot.
cast(field, text) ==
    IF field = "id"
    THEN IF text # <<>> /\ \A i \in 1..Len(text) : is_digit(text[i])
         THEN Some(text_to_int(text, 0)) ELSE None
    ELSE Some(text)

\* The position can be compared with the _cursor tuple of the ordering's columns.
comparable(ordering, position) ==
    /\ valid_ordering(ordering)
    /\ Len(position) = Len(ordering)
    /\ \A i \in 1..Len(ordering) : cast(lstrip_dash(ordering[i]), position[i]) # None

\* Row-value comparison (c1, ..., cn) < (v1, ..., vn), every column ascending.
RECURSIVE tuple_less(_, _, _, _)
tuple_less(ordering, g, position, gt) ==
    IF ordering = <<>> THEN FALSE
    ELSE LET f == lstrip_dash(ordering[1])
             v == column(g, f)
             w == cast(f, position[1])[1]
         IN  IF v = w THEN tuple_less(Tail(ordering), g, Tail(position), gt)
             ELSE IF gt THEN value_less(f, w, v) ELSE value_less(f, v, w)

apply_cursor_from_position(ordering, position, rows, reversed) ==
    LET is_reversed == startswith_dash(ordering[1]) IN
    {g \in rows : ~tuple_less(ordering, g, position, reversed # is_reversed)}

\* apply_cursor: the rows the filter _cursor__gt / _cursor__lt keeps.
apply_cursor(ordering, position, rows, reversed) ==
    LET is_reversed == startswith_dash(ordering[1]) IN
    {g \in rows : tuple_less(ordering, g, position, reversed = is_reversed)}

PageResult(error, items, has_previous, has_next) ==
    [error |-> error, items |-> items, has_previous |-> has_previous, has_next |-> has_next]

\* CursorPaginator(queryset, ordering).page(first, last, after, before): the set
\* of pages the call may give (one, unless rows tie under the ordering).
paginator_page(rows, ordering, first, last, after, before) ==
    LET page_size == IF first # None /\ first[1] # 0 THEN first ELSE last
        p_after == IF after = None THEN None ELSE decode_cursor(after[1])
        p_before == IF before = None THEN None ELSE decode_cursor(before[1])
    IN  IF page_size = None
        THEN IF ~valid_ordering(ordering) THEN {PageResult("FieldError", <<>>, FALSE, FALSE)}
             ELSE {PageResult("none", s, FALSE, FALSE) : s \in listings(rows, ordering)}
        ELSE IF after # None /\ p_after = None
        THEN {PageResult("InvalidCursor", <<>>, FALSE, FALSE)}
        ELSE IF before # None /\ p_before = None
        THEN {PageResult("InvalidCursor", <<>>, FALSE, FALSE)}
        ELSE IF first # None /\ last # None
        THEN {PageResult("ValueError", <<>>, FALSE, FALSE)}
        ELSE IF ~valid_ordering(ordering)
        THEN {PageResult("FieldError", <<>>, FALSE, FALSE)}
        ELSE IF \/ (after # None /\ ~comparable(ordering, p_after[1]))
                \/ (before # None /\ ~comparable(ordering, p_before[1]))
        THEN {PageResult("DataError", <<>>, FALSE, FALSE)}
        ELSE
        LET qs1 == IF after = None THEN rows
                   ELSE apply_cursor(ordering, p_after[1], rows, FALSE)
            qs2 == IF before = None THEN qs1
                   ELSE apply_cursor(ordering, p_before[1], qs1, TRUE)
        IN  IF first # None
            THEN {LET qs == take(s, first[1] + 1)
                      items == take(qs, page_size[1])
                  IN  PageResult("none", items, after # None, Len(qs) > Len(items))
                  : s \in listings(qs2, ordering)}
            ELSE {LET qs == take(s, last[1] + 1)
                      items == take(qs, page_size[1])
                  IN  PageResult("none", reverse(items), Len(qs) > Len(items), before # None)
                  : s \in listings(qs2, reverse_ordering(ordering))}

(***************************************************************************)
(* PermissionedConnectionField: the list query.                            *)
(* args = [orderBy, first, last, after, before, name_Icontains]            *)
(***************************************************************************)
\* Set by the field's construction for every permissioned connection: a list
\* request must carry first or last.
enforce_first_or_last == TRUE

ListSteps == <<"order_by", "get_viewable", "filterset", "count", "paginator">>

connection_type_first_cursor_twice(ordering, page) ==
    IF page.error # "none"
    THEN Resp(page.error, Append(ListSteps, "page"))
    ELSE LET edges == [i \in 1..Len(page.items) |->
                          [node |-> page.items[i],
                           cursor |-> paginator_cursor(ordering, page.items[i])[1]]]
         IN  [Resp("none", Append(ListSteps, "page")) EXCEPT !.page = Some(
                 [edges |-> edges,
                  start_cursor |-> IF edges # <<>> THEN Some(edges[1].cursor) ELSE None,
                  end_cursor |-> IF edges # <<>> THEN Some(edges[1].cursor) ELSE None,
                  has_previous_page |-> page.has_previous,
                  has_next_page |-> page.has_next,
                  length |-> 0])]

connection_type_offset_cursor(ordering, page) ==
    IF page.error # "none"
    THEN Resp(page.error, Append(ListSteps, "page"))
    ELSE LET edges == [i \in 1..Len(page.items) |->
                          [node |-> page.items[i],
                           cursor |-> b64encode(int_to_text(i - 1))]]
         IN  [Resp("none", Append(ListSteps, "page")) EXCEPT !.page = Some(
                 [edges |-> edges,
                  start_cursor |-> IF edges # <<>> THEN Some(edges[1].cursor) ELSE None,
                  end_cursor |-> IF edges # <<>> THEN Some(edges[Len(edges)].cursor) ELSE None,
                  has_previous_page |-> page.has_previous,
                  has_next_page |-> page.has_next,
                  length |-> 0])]

\* The connection built from a page: one edge per item, its cursor computed
\* from the item itself, and the page info; length is set by the caller.
connection_type(ordering, page) ==
    IF page.error # "none"
    THEN Resp(page.error, Append(ListSteps, "page"))
    ELSE LET edges == [i \in 1..Len(page.items) |->
                          [node |-> page.items[i],
                           cursor |-> paginator_cursor(ordering, page.items[i])[1]]]
         IN  [Resp("none", Append(ListSteps, "page")) EXCEPT !.page = Some(
                 [edges |-> edges,
                  start_cursor |-> IF edges # <<>> THEN Some(edges[1].cursor) ELSE None,
                  end_cursor |-> IF edges # <<>> THEN Some(edges[Len(edges)].cursor) ELSE None,
                  has_previous_page |-> page.has_previous,
                  has_next_page |-> page.has_next,
                  length |-> 0])]

connection_from_queryset_drops_last(qs, args) ==
    LET ordering == args.orderBy IN
    IF ~directions_match(ordering)
    THEN {Resp("InvalidCursor", ListSteps)}
    ELSE {connection_type(ordering, page) :
            page \in paginator_page(qs.rows, ordering, args.first, None,
                                    args.after, args.before)}

\* connection_from_queryset: the connections the call may give.
connection_from_queryset(qs, args) ==
    LET ordering == args.orderBy IN
    IF ~directions_match(ordering)
    THEN {Resp("InvalidCursor", ListSteps)}
    ELSE {connection_type(ordering, page) :
            page \in paginator_page(qs.rows, ordering, args.first, args.last,
                                    args.after, args.before)}

merge_querysets_keep_iterable(default_queryset, queryset) == queryset

\* merge_querysets: queryset & default_queryset
merge_querysets(default_queryset, queryset) ==
    QuerySet(queryset.rows \cap default_queryset.rows, queryset.order_by)

resolve_connection(default_manager, args, iterable) ==
    LET it == IF iterable = None THEN default_manager
              ELSE merge_querysets(default_manager, iterable[1])
        len == Cardinality(it.rows)
    IN  {IF c.error # "none" THEN c
         ELSE [c EXCEPT !.page = Some([c.page[1] EXCEPT !.length = len])]
         : c \in connection_from_queryset(it, args)}

order_queryset(qs, order_by_array) == QuerySet(qs.rows, order_by_array)

\* text contains sub
contains(text, sub) ==
    \E i \in 0..(Len(text) - Len(sub)) :
        \A j \in 1..Len(sub) : text[i + j] = sub[j]

\* filterset_class(data=filter_kwargs, queryset=qs).qs
filterset_qs(qs, args) ==
    IF args.name_Icontains = None THEN qs
    ELSE QuerySet({g \in qs.rows : contains(g.name, args.name_Icontains[1])}, qs.order_by)

\* DjangoFilterConnectionField.connection_resolver, reached through super():
\* the filterset, the first/last assertion, the parent resolver's iterable.
super_connection_resolver(default_manager, args, iterable) ==
    LET qs == filterset_qs(default_manager, args)
        first_truthy == args.first # None /\ args.first[1] # 0
        last_truthy == args.last # None /\ args.last[1] # 0
    IN  IF enforce_first_or_last /\ ~(first_truthy \/ last_truthy)
        THEN {Resp("MissingFirstOrLast", <<"order_by", "get_viewable", "filterset">>)}
        ELSE resolve_connection(qs, args, iterable)

connection_resolver_unfiltered(table, user, args, iterable) ==
    super_connection_resolver(
        order_queryset(QuerySet(objects_all(table), <<>>), args.orderBy), args, iterable)

connection_resolver_counts_table(table, user, args, iterable) ==
    LET qs0 == QuerySet(objects_all(table), <<>>)
        ordered == order_queryset(qs0, args.orderBy)
        viewable == QuerySet(get_viewable(ordered.rows, user), ordered.order_by)
    IN  {IF c.error # "none" THEN c
         ELSE [c EXCEPT !.page = Some([c.page[1] EXCEPT !.length = Cardinality(table)])]
         : c \in super_connection_resolver(viewable, args, iterable)}

\* PermissionedConnectionField.connection_resolver: the set of responses the
\* list query may give.
connection_resolver(table, user, args, iterable) ==
    LET qs0 == QuerySet(objects_all(table), <<>>)
        ordered == order_queryset(qs0, args.orderBy)
        viewable == QuerySet(get_viewable(ordered.rows, user), ordered.order_by)
    IN  super_connection_resolver(viewable, args, iterable)

(***************************************************************************)
(* The state machine.                                                      *)
(***************************************************************************)
Idle == Resp("idle", <<>>)

\* The client has not asked for a first page.
NoWalk ==
    [phase |-> "idle", user |-> "u1", orderBy |-> <<>>, first |-> 0, pages |-> 0,
     seen |-> <<>>, after |-> None, changed |-> FALSE, stable |-> {}]

\* What the walking client's bookkeeping becomes when the table becomes table2:
\* the table changed under the walk, and the ids that have been viewable to
\* the client all along shrink to those still viewable.
tracked(table2) ==
    IF walk.phase = "idle" THEN walk
    ELSE [walk EXCEPT
            !.changed = @ \/ table2 # db,
            !.stable = @ \cap {g.id : g \in get_viewable(table2, walk.user)}]

\* No second request is under way.
NoPending ==
    [phase |-> "none", kind |-> "none", user |-> "u1", input |-> None,
     instance |-> None, stale |-> FALSE, applied |-> FALSE]

Init ==
    /\ db = {}
    /\ nextId = 1
    /\ req = NoReq
    /\ resp = Idle
    /\ pre = {}
    /\ deleted = {}
    /\ walk = NoWalk
    /\ pending = NoPending

\* The tests' direct use of the ORM: Group.objects.create(name=...),
\* g.user_set.add(user).
EnvCreate ==
    /\ req = NoReq
    /\ nextId <= MaxId
    /\ \E name \in Names :
         db' = db \cup {[id |-> nextId, name |-> name, users |-> {}]}
    /\ nextId' = nextId + 1
    /\ UNCHANGED <<req, resp, pre, deleted, walk, pending>>

EnvAddUser ==
    /\ req = NoReq
    /\ \E g \in db, u \in Actors :
         /\ u \notin g.users
         /\ db' = (db \ {g}) \cup {[g EXCEPT !.users = @ \cup {u}]}
    /\ walk' = tracked(db')
    /\ UNCHANGED <<nextId, req, resp, pre, deleted, pending>>

\* Group__Item(id): PermissionedNode.get_node_from_global_id -> get_node
GetNode ==
    /\ req = NoReq
    /\ \E user \in Actors, id \in Ids :
         /\ req' = [op |-> "node", user |-> user, id |-> id]
         /\ resp' = get_node(db, user, id)
    /\ pre' = db
    /\ UNCHANGED <<db, nextId, deleted, walk, pending>>

\* A to-one relation field of an already resolved parent, whose own resolver
\* gives a stored Group or null.
ResolveToOne ==
    /\ req = NoReq
    /\ \E user \in Actors, inst \in {None} \cup {Some(g) : g \in db} :
         /\ req' = [op |-> "to_one", user |-> user, inst |-> inst]
         /\ resp' = resolve_with_permission_check(db, user, inst)
    /\ pre' = db
    /\ UNCHANGED <<db, nextId, deleted, walk, pending>>

\* What a client may send as edgeCursorOrderBy: nothing, the empty list, two
\* orderings the paginator takes and one whose directions differ.
EdgeOrderings ==
    {None, Some(<<>>), Some(<<"id">>), Some(<<"-id", "-name">>), Some(<<"name", "-id">>)}

\* The two mutation fields the schema binds to the create-and-update class.
MutationFields == {"Group__Create", "Group__Update"}

MutationInputs ==
    [id : {None} \cup {Some(i) : i \in Ids},
     name : InputNames,
     edge_cursor_order_by : EdgeOrderings]

\* Group__Create / Group__Update: both fields run the same mutation class.
Mutate ==
    /\ req = NoReq
    /\ \E field \in MutationFields, user \in Actors, input \in MutationInputs,
          wants_edge \in BOOLEAN :
         LET out == mutate_and_get_payload(db, nextId, user, input, wants_edge) IN
         /\ out.nextId <= MaxId + 1
         /\ req' = [op |-> "mutate", field |-> field, user |-> user, input |-> input,
                     wants_edge |-> wants_edge]
         /\ resp' = out.resp
         /\ db' = out.db
         /\ nextId' = out.nextId
    /\ pre' = db
    /\ UNCHANGED <<deleted, walk, pending>>

\* Group__Delete(input: {id})
Delete ==
    /\ req = NoReq
    /\ \E user \in Actors, id \in Ids :
         LET out == deletion_mutate(db, nextId, user, id) IN
         /\ req' = [op |-> "delete", user |-> user, id |-> id]
         /\ resp' = out.resp
         /\ db' = out.db
         /\ nextId' = out.nextId
         /\ deleted' = IF out.resp.error = "none" THEN deleted \cup {id} ELSE deleted
         /\ walk' = tracked(out.db)
    /\ pre' = db
    /\ UNCHANGED pending

\* The response goes back to the client and the request ends.
Reply ==
    /\ req # NoReq
    /\ req' = NoReq
    /\ resp' = Idle
    /\ pre' = {}
    /\ UNCHANGED <<db, nextId, deleted, walk, pending>>

NextWrite ==
    \/ EnvCreate
    \/ EnvAddUser
    \/ GetNode
    \/ ResolveToOne
    \/ Mutate
    \/ Delete
    \/ Reply

SpecWrite == Init /\ [][NextWrite]_vars

(***************************************************************************)
(* List requests.                                                          *)
(***************************************************************************)
OrderBys ==
    {<<"id">>, <<"-id", "-name">>, <<"name", "id">>, <<"name">>,
     <<"name", "-id">>, <<"bogus">>}

\* (first, last) as a client may send them: neither, a zero, one of them, both.
PageBounds ==
    {<<None, None>>, <<Some(0), None>>, <<None, Some(0)>>,
     <<Some(1), None>>, <<Some(2), None>>, <<None, Some(1)>>, <<None, Some(2)>>,
     <<Some(1), Some(1)>>, <<Some(0), Some(2)>>}

\* Cursors a client may hold for an ordering: none, a string that is no cursor,
\* and the cursor of every stored row.
Cursors(table, ordering) ==
    {None, Some(Garbage)} \cup
    (IF valid_ordering(ordering)
     THEN {paginator_cursor(ordering, g) : g \in table}
     ELSE {})

Args(o, bounds, after, before, filter) ==
    [orderBy |-> o, first |-> bounds[1], last |-> bounds[2],
     after |-> after, before |-> before, name_Icontains |-> filter]

\* Paging requests: every ordering, every bound, every pair of cursors.
PagingArgs(table) ==
    UNION {{Args(o, b, after, before, None) :
              b \in PageBounds, after \in Cursors(table, o), before \in Cursors(table, o)}
           : o \in OrderBys}

\* Requests without cursors, with and without the name filter.
PlainArgs ==
    {Args(o, b, None, None, f) :
        o \in OrderBys, b \in PageBounds, f \in {None, Some(<<"a">>)}}

ListArgs(table) == PagingArgs(table) \cup PlainArgs

\* Requests on a relation field: no cursors, no filter.
RelatedArgs == {args \in PlainArgs : args.name_Icontains = None}

\* Group__List(...): the top-level connection field; its parent resolver gives
\* no iterable.
List ==
    /\ req = NoReq
    /\ \E user \in Actors, args \in ListArgs(db) :
         /\ req' = [op |-> "list", user |-> user, args |-> args, iterable |-> None]
         /\ resp' \in connection_resolver(db, user, args, None)
    /\ pre' = db
    /\ UNCHANGED <<db, nextId, deleted, walk, pending>>

\* groupSet(...) on a resolved parent: the parent resolver gives the related
\* manager's queryset, the stored groups attached to the parent.
ListRelated ==
    /\ req = NoReq
    /\ \E user \in Actors, related \in SUBSET db, args \in RelatedArgs :
         /\ req' = [op |-> "list", user |-> user, args |-> args, iterable |-> Some(related)]
         /\ resp' \in connection_resolver(db, user, args, Some(QuerySet(related, <<>>)))
    /\ pre' = db
    /\ UNCHANGED <<db, nextId, deleted, walk, pending>>

Next ==
    \/ NextWrite
    \/ List
    \/ ListRelated

Spec == Init /\ [][Next]_vars

(***************************************************************************)
(* A client that pages through the list: first = n without a cursor, then  *)
(* first = n with after = the endCursor of the page before, for as long as *)
(* hasNextPage is true, while the table may change between two requests.   *)
(***************************************************************************)
\* Largest page size the walking client asks for.
MaxFirst == 2

\* Names the name column may hold: the delimiter is a character like any other.
StoredNames == Names \cup {<<delimiter>>}

\* Group.objects.create(name=...) with any name the column takes.
EnvCreateNamed ==
    /\ req = NoReq
    /\ nextId <= MaxId
    /\ \E name \in StoredNames :
         db' = db \cup {[id |-> nextId, name |-> name, users |-> {}]}
    /\ nextId' = nextId + 1
    /\ walk' = tracked(db')
    /\ UNCHANGED <<req, resp, pre, deleted, pending>>

\* What the client keeps of an answer: the rows of the edges (their ordering
\* columns), the endCursor to send as after, and whether to go on.
turn_page(w, r) ==
    IF r.error # "none"
    THEN [w EXCEPT !.phase = "failed", !.pages = @ + 1]
    ELSE LET page == r.page[1] IN
         [w EXCEPT
            !.phase = IF page.has_next_page THEN "open" ELSE "done",
            !.pages = @ + 1,
            !.seen = @ \o [i \in 1..Len(page.edges) |->
                              [id |-> page.edges[i].node.id,
                               name |-> page.edges[i].node.name]],
            !.after = page.end_cursor]

\* Group__List(first: n, orderBy: o): the first page.
WalkStart ==
    /\ req = NoReq
    /\ walk.phase = "idle"
    /\ \E user \in Actors, o \in OrderBys, n \in 1..MaxFirst :
         LET args == Args(o, <<Some(n), None>>, None, None, None) IN
         \E r \in connection_resolver(db, user, args, None) :
            /\ req' = [op |-> "list", user |-> user, args |-> args, iterable |-> None]
            /\ resp' = r
            /\ walk' = turn_page(
                  [walk EXCEPT !.user = user, !.orderBy = o, !.first = n,
                               !.stable = {g.id : g \in get_viewable(db, user)}], r)
    /\ pre' = db
    /\ UNCHANGED <<db, nextId, deleted, pending>>

\* Group__List(first: n, orderBy: o, after: endCursor of the page before).
WalkNext ==
    /\ req = NoReq
    /\ walk.phase = "open"
    /\ LET args == Args(walk.orderBy, <<Some(walk.first), None>>, walk.after, None, None) IN
       \E r \in connection_resolver(db, walk.user, args, None) :
          /\ req' = [op |-> "list", user |-> walk.user, args |-> args, iterable |-> None]
          /\ resp' = r
          /\ walk' = turn_page(walk, r)
    /\ pre' = db
    /\ UNCHANGED <<db, nextId, deleted, pending>>

NextPaging ==
    \/ EnvCreateNamed
    \/ EnvAddUser
    \/ Delete
    \/ WalkStart
    \/ WalkNext
    \/ Reply

SpecPaging == Init /\ [][NextPaging]_vars

(***************************************************************************)
(* Two requests at once.  The handlers above run a request alone; a second *)
(* request runs beside them in two steps, since nothing in the handlers    *)
(* holds a lock or a transaction: first the lookup, the validation and the *)
(* permission check, each reading the table as it is then, later the write *)
(* (serializer.save() or obj.delete()), which acts on the table as it has  *)
(* become.  pending.instance is the row as the lookup read it,             *)
(* pending.stale tells whether the same check would have failed on the     *)
(* table the write found, and pending.applied whether the write changed    *)
(* the table.  A second request that ends at the check leaves no write.    *)
(***************************************************************************)
\* The create/update inputs of the second request: no edge is asked for.
RaceInputs ==
    {input \in MutationInputs : input.edge_cursor_order_by = None}

\* mutate_and_get_payload up to perform_mutate's permission check.
CheckMutate ==
    /\ pending.phase = "none"
    /\ \E user \in Actors, input \in RaceInputs :
         LET kwargs == get_serializer_kwargs(db, input)
             go == /\ kwargs.error = "none"
                   /\ is_valid(input)
                   /\ has_permission(db, user, kwargs.instance, input)
         IN  pending' = IF go
                        THEN [phase |-> "checked", kind |-> "mutate", user |-> user,
                              input |-> Some(input), instance |-> kwargs.instance,
                              stale |-> FALSE, applied |-> FALSE]
                        ELSE [NoPending EXCEPT !.phase = "failed", !.kind = "mutate"]
    /\ UNCHANGED <<db, nextId, req, resp, pre, deleted, walk>>

\* perform_mutate after the check: _save_and_get_payload.
WriteMutate ==
    /\ pending.phase = "checked"
    /\ pending.kind = "mutate"
    /\ LET out == save_and_get_payload(db, nextId, pending.instance, pending.input[1],
                                       <<"edge_check", "is_valid">>)
       IN  /\ out.nextId <= MaxId + 1
           /\ db' = out.db
           /\ nextId' = out.nextId
           /\ walk' = tracked(out.db)
           /\ pending' = [pending EXCEPT !.phase = "written",
                                          !.stale = ~has_permission(db, pending.user,
                                                        pending.instance, pending.input[1]),
                                          !.applied = out.db # db]
    /\ UNCHANGED <<req, resp, pre, deleted>>

\* PermissionedDeletionMutation.mutate up to the can_delete check.
CheckDelete ==
    /\ pending.phase = "none"
    /\ \E user \in Actors, id \in Ids :
         LET obj == objects_get(db, id)
             go == obj # None /\ can_delete(objects_all(db), user, obj[1])
         IN  pending' = IF go
                        THEN [phase |-> "checked", kind |-> "delete", user |-> user,
                              input |-> None, instance |-> obj,
                              stale |-> FALSE, applied |-> FALSE]
                        ELSE [NoPending EXCEPT !.phase = "failed", !.kind = "delete"]
    /\ UNCHANGED <<db, nextId, req, resp, pre, deleted, walk>>

\* PermissionedDeletionMutation.mutate after the check: obj.delete().
WriteDelete ==
    /\ pending.phase = "checked"
    /\ pending.kind = "delete"
    /\ db' = {g \in db : g.id # pending.instance[1].id}
    /\ deleted' = deleted \cup {pending.instance[1].id}
    /\ walk' = tracked(db')
    /\ pending' = [pending EXCEPT !.phase = "written",
                                   !.stale = ~can_delete(objects_all(db), pending.user,
                                                         pending.instance[1]),
                                   !.applied = db' # db]
    /\ UNCHANGED <<nextId, req, resp, pre>>

\* The second request's answer goes back and it ends.
Settle ==
    /\ pending.phase \in {"written", "failed"}
    /\ pending' = NoPending
    /\ UNCHANGED <<db, nextId, req, resp, pre, deleted, walk>>

NextRace ==
    \/ EnvCreate
    \/ EnvAddUser
    \/ Delete
    \/ Reply
    \/ CheckMutate
    \/ WriteMutate
    \/ CheckDelete
    \/ WriteDelete
    \/ Settle

SpecRace == Init /\ [][NextRace]_vars

(***************************************************************************)
(* Properties.                                                             *)
(***************************************************************************)
stored(table, id) == \E g \in table : g.id = id
row(table, id) == CHOOSE g \in table : g.id = id
NodesOf(page) == {page.edges[i].node : i \in 1..Len(page.edges)}

\* The edge precondition of a create/update request holds: the edge field is
\* not requested, or a non-empty edge ordering came with the input.
EdgePreconditionMet ==
    ~(req.wants_edge /\ req.input.edge_cursor_order_by \in {None, Some(<<>>)})

\* C1: every entity in the edges of a page returned by a permissioned list
\* query (top-level or through a relation) is in get_viewable(actor) of the
\* table, whatever the ordering, bounds, cursors and filter; a failed request
\* returns no page.
C1_PageWithinViewable ==
    req.op = "list" =>
        IF resp.error = "none"
        THEN NodesOf(resp.page[1]) \subseteq get_viewable(objects_all(pre), req.user)
        ELSE resp.page = None

C1_Witness ==
    /\ req.op = "list"
    /\ resp.error = "none"
    /\ resp.page[1].edges # <<>>
    /\ \E g \in pre : req.user \notin g.users

\* C2: node lookup has exactly three outcomes: not-found when no row has the
\* id, a permission error when the row exists and can_view is false, and the
\* row itself only when it exists and can_view is true.
C2_NodeLookupOutcomes ==
    req.op = "node" =>
        IF ~stored(pre, req.id)
        THEN resp.error = "DoesNotExist" /\ resp.node = None
        ELSE IF ~can_view(objects_all(pre), req.user, row(pre, req.id))
             THEN resp.error = "PermissionDenied" /\ resp.node = None
             ELSE resp.error = "none" /\ resp.node = Some(row(pre, req.id))

C2_Witness ==
    /\ req.op = "node"
    /\ stored(pre, req.id)
    /\ resp.error = "PermissionDenied"

\* C3: a to-many relation listed through a parent returns edges drawn from
\* (rows related to the parent) intersected with (rows viewable by the actor):
\* nothing outside the intersection appears, the connection's length is the
\* size of the intersection, and a page that is not cut short holds all of it.
C3_RelatedWithinPolicy ==
    (req.op = "list" /\ req.iterable # None /\ resp.error = "none") =>
        LET allowed == req.iterable[1] \cap get_viewable(objects_all(pre), req.user)
            page == resp.page[1]
        IN  /\ NodesOf(page) \subseteq allowed
            /\ page.length = Cardinality(allowed)
            /\ (req.args.first # None /\ ~page.has_next_page) => NodesOf(page) = allowed
            /\ (req.args.last # None /\ ~page.has_previous_page) => NodesOf(page) = allowed

C3_Witness ==
    /\ req.op = "list"
    /\ req.iterable # None
    /\ resp.error = "none"
    /\ \E g \in req.iterable[1] : req.user \notin g.users
    /\ \E g \in pre : req.user \in g.users /\ g \notin req.iterable[1]

\* C4: a to-one relation gives the related row only when can_view holds for
\* it, fails with a permission error when it does not, and gives null for a
\* null relation without evaluating the policy.
C4_ToOneChecked ==
    req.op = "to_one" =>
        IF req.inst = None
        THEN resp.error = "none" /\ resp.node = None /\ resp.steps = <<"resolve">>
        ELSE IF can_view(objects_all(pre), req.user, req.inst[1])
             THEN resp.error = "none" /\ resp.node = req.inst
             ELSE resp.error = "PermissionDenied" /\ resp.node = None

C4_Witness ==
    /\ req.op = "to_one"
    /\ req.inst # None
    /\ resp.error = "PermissionDenied"

\* C5: a create whose can_add is false, or an update whose can_change on the
\* stored row is false, ends with a permission error and leaves the table as it
\* was: no row is added and no field of the target is written.
C5_DeniedMutationChangesNothing ==
    req.op = "mutate" =>
        LET input == req.input
            target == IF input.id = None THEN None ELSE objects_get(pre, input.id[1])
            found == input.id = None \/ target # None
            denied == IF input.id # None
                      THEN ~can_change(objects_all(pre), req.user, target[1])
                      ELSE ~can_add(req.user, build_obj(input))
        IN  /\ (EdgePreconditionMet /\ found /\ is_valid(input) /\ denied) =>
                /\ resp.error = "PermissionDenied"
                /\ resp.result = None
                /\ db = pre
            /\ resp.error = "PermissionDenied" => db = pre

C5_Witness ==
    /\ req.op = "mutate"
    /\ req.input.id # None
    /\ resp.error = "PermissionDenied"
    /\ req.input.name # row(pre, req.input.id[1]).name

\* C6 as stated: a create whose data violates can_add returns a payload with
\* ok = false, and nothing is persisted.
C6_DeniedCreateReturnsPayload ==
    (req.op = "mutate" /\ req.input.id = None /\ req.input.name = DISALLOW_CREATION
        /\ EdgePreconditionMet) =>
        resp.ok = Some(FALSE) /\ db = pre

\* C6, amended: a create whose data violates can_add raises the permission
\* error: no payload comes back (no ok, no errors, no result), and nothing is
\* persisted.
C6_DeniedCreateRaises ==
    (req.op = "mutate" /\ req.input.id = None /\ req.input.name = DISALLOW_CREATION
        /\ EdgePreconditionMet) =>
        /\ resp.error = "PermissionDenied"
        /\ resp.ok = None /\ resp.errors = None /\ resp.result = None /\ resp.edge = None
        /\ db = pre

C6_Witness ==
    /\ req.op = "mutate"
    /\ req.input.id = None
    /\ req.input.name = DISALLOW_CREATION
    /\ resp.error = "PermissionDenied"
    /\ resp.steps = <<"edge_check", "is_valid", "can_add">>

\* C7: a delete of a stored row for which can_delete is false fails with a
\* permission error, and the row is still in the unchanged table.
C7_DeniedDeleteChangesNothing ==
    (req.op = "delete" /\ stored(pre, req.id)
        /\ ~can_delete(objects_all(pre), req.user, row(pre, req.id))) =>
        /\ resp.error = "PermissionDenied"
        /\ resp.ok = None
        /\ db = pre
        /\ row(pre, req.id) \in db

C7_Witness ==
    /\ req.op = "delete"
    /\ stored(pre, req.id)
    /\ resp.error = "PermissionDenied"

\* C8: a permitted delete answers ok = true and removes the row, and from then
\* on the id is in no row and every node lookup of it fails with not-found; a
\* delete of an id that no row has fails with not-found and changes nothing.
C8_DeleteRemoves ==
    /\ (req.op = "delete" /\ stored(pre, req.id)
          /\ can_delete(objects_all(pre), req.user, row(pre, req.id))) =>
          /\ resp.error = "none" /\ resp.ok = Some(TRUE)
          /\ db = pre \ {row(pre, req.id)}
          /\ req.id \in deleted
    /\ (req.op = "delete" /\ ~stored(pre, req.id)) =>
          resp.error = "DoesNotExist" /\ db = pre
    /\ \A id \in deleted : ~stored(db, id)
    /\ (req.op = "node" /\ req.id \in deleted) => resp.error = "DoesNotExist"

C8_Witness ==
    /\ req.op = "node"
    /\ req.id \in deleted
    /\ resp.error = "DoesNotExist"

\* C9: a create/update that requests the edge field with no edge ordering, or
\* an empty one, fails with the missing-ordering error before any lookup,
\* validation, authorization or save: the table is unchanged.
C9_EdgeNeedsOrdering ==
    (req.op = "mutate" /\ req.wants_edge
        /\ req.input.edge_cursor_order_by \in {None, Some(<<>>)}) =>
        /\ resp.error = "MissingOrdering"
        /\ resp.steps = <<"edge_check">>
        /\ resp.ok = None /\ resp.result = None /\ resp.edge = None
        /\ db = pre

C9_Witness ==
    /\ req.op = "mutate"
    /\ req.wants_edge
    /\ req.input.edge_cursor_order_by = Some(<<>>)
    /\ req.input.id = None
    /\ req.input.name = <<"a">>
    /\ nextId <= MaxId
    /\ resp.error = "MissingOrdering"

NeitherBound == req.args.first = None /\ req.args.last = None
BothBounds == req.args.first # None /\ req.args.last # None

Target == IF req.input.id = None THEN None ELSE objects_get(pre, req.input.id[1])
TargetFound == req.input.id = None \/ Target # None
Permitted ==
    IF req.input.id # None
    THEN can_change(objects_all(pre), req.user, Target[1])
    ELSE can_add(req.user, build_obj(req.input))
Did(step) == \E i \in 1..Len(resp.steps) : resp.steps[i] = step
Position(step) == CHOOSE i \in 1..Len(resp.steps) : resp.steps[i] = step

\* The input fields the serializer rejects.
InvalidFields(input) == {f \in {"name"} : input.name = <<>>}

\* C14: when the serializer reports the input invalid, the create/update
\* mutation returns (does not raise) a payload with ok = false and one error
\* entry per invalid field, no result and no edge; can_add and can_change are
\* not evaluated and the table is unchanged.  ok = false comes back for no
\* other reason.
C14_InvalidInputReported ==
    req.op = "mutate" =>
        /\ (EdgePreconditionMet /\ TargetFound /\ ~is_valid(req.input)) =>
              /\ resp.error = "none"
              /\ resp.ok = Some(FALSE)
              /\ resp.errors # None
              /\ Len(resp.errors[1]) = Cardinality(InvalidFields(req.input))
              /\ {resp.errors[1][i].field : i \in 1..Len(resp.errors[1])}
                    = InvalidFields(req.input)
              /\ resp.result = None /\ resp.edge = None
              /\ ~Did("can_add") /\ ~Did("can_change") /\ ~Did("save")
              /\ db = pre
        /\ resp.ok = Some(FALSE) => ~is_valid(req.input)

C14_Witness ==
    /\ req.op = "mutate"
    /\ req.input.id # None
    /\ Target # None
    /\ ~can_change(objects_all(pre), req.user, Target[1])
    /\ resp.ok = Some(FALSE)

\* C15 as stated: the id is required for update and rejected for create: an
\* update request without an id persists nothing, and a create request that
\* carries an id is rejected and leaves the row with that id as it was.
C15_IdRequiredForUpdateOnly ==
    /\ (req.op = "mutate" /\ req.field = "Group__Update" /\ req.input.id = None) =>
          db = pre
    /\ (req.op = "mutate" /\ req.field = "Group__Create" /\ req.input.id # None) =>
          resp.ok # Some(TRUE) /\ db = pre

\* C16 as stated: a permitted, valid create/update returns ok = true, no
\* errors and result = the persisted row; the edge is present exactly when a
\* non-empty edge ordering came with the input, and then its node is the
\* persisted row and its cursor encodes the row's values for that ordering.
C16_PermittedMutationPayload ==
    (req.op = "mutate" /\ EdgePreconditionMet /\ TargetFound /\ is_valid(req.input)
        /\ Permitted) =>
        /\ resp.error = "none"
        /\ resp.ok = Some(TRUE)
        /\ resp.errors \in {None, Some(<<>>)}
        /\ resp.result # None
        /\ resp.result[1] \in db
        /\ resp.result[1].name = req.input.name
        /\ (resp.edge # None) <=> has_ordering(req.input)
        /\ resp.edge # None =>
              /\ resp.edge[1].node = resp.result[1]
              /\ resp.edge[1].cursor = encode_cursor(
                    [i \in 1..Len(req.input.edge_cursor_order_by[1]) |->
                        attr_text(resp.result[1],
                                  lstrip_dash(req.input.edge_cursor_order_by[1][i]))])

\* C19: an update whose id no row has fails before validation and
\* authorization: the serializer is not validated, neither can_change nor
\* can_add is evaluated and the table is unchanged; once the edge precondition
\* is met the failure is the not-found error, raised by the lookup.
C19_MissingTargetFailsFirst ==
    (req.op = "mutate" /\ req.input.id # None /\ Target = None) =>
        /\ resp.error # "none"
        /\ resp.ok = None /\ resp.result = None /\ resp.edge = None
        /\ ~Did("is_valid") /\ ~Did("can_change") /\ ~Did("can_add") /\ ~Did("save")
        /\ db = pre
        /\ EdgePreconditionMet =>
              resp.error = "DoesNotExist" /\ resp.steps = <<"edge_check", "lookup">>

C19_Witness ==
    /\ req.op = "mutate"
    /\ req.input.id # None
    /\ Target = None
    /\ req.input.name = <<>>
    /\ resp.error = "DoesNotExist"

\* The steps of a create/update request, in the order the handler takes them.
StepOrder == <<"edge_check", "lookup", "is_valid", "authorize", "save", "get_edge">>
StepKind(step) == IF step \in {"can_add", "can_change"} THEN "authorize" ELSE step
Rank(step) == CHOOSE i \in 1..Len(StepOrder) : StepOrder[i] = StepKind(step)

\* C20: the steps of every create/update request come in the order edge
\* check, lookup, validation, authorization, save, edge computation, each at
\* most once; the save happens only after validation found the input valid
\* and the policy allowed the request, the edge is computed only after the
\* save, and the table changes only by the save.
C20_MutationStepOrder ==
    req.op = "mutate" =>
        /\ \A i \in 1..Len(resp.steps) : StepKind(resp.steps[i]) \in
              {StepOrder[k] : k \in 1..Len(StepOrder)}
        /\ \A i, j \in 1..Len(resp.steps) :
              i < j => Rank(resp.steps[i]) < Rank(resp.steps[j])
        /\ resp.steps # <<>> /\ resp.steps[1] = "edge_check"
        /\ Did("save") =>
              /\ Did("is_valid") /\ is_valid(req.input)
              /\ Did("can_add") \/ Did("can_change")
              /\ TargetFound /\ Permitted
        /\ Did("get_edge") => Did("save")
        /\ db # pre => Did("save")

C20_Witness ==
    /\ req.op = "mutate"
    /\ resp.steps = <<"edge_check", "lookup", "is_valid", "can_change", "save", "get_edge">>
    /\ db # pre

\* C13: the cursor of every returned edge is the base64 of the edge's row's
\* orderBy values joined by "|" in orderBy order, the "-" of a descending token
\* left out (for ["-id", "-name"] it is "<id>|<name>", for ["id"] it is
\* "<id>"); it depends on the row and the ordering, not on the edge's index,
\* and the page's start and end cursors are those of its first and last edge.
C13_EdgeCursorFromOrdering ==
    (req.op = "list" /\ resp.error = "none") =>
        LET o == req.args.orderBy
            page == resp.page[1]
        IN  /\ \A i \in 1..Len(page.edges) :
                  LET e == page.edges[i]
                      values == [k \in 1..Len(o) |-> attr_text(e.node, lstrip_dash(o[k]))]
                  IN  /\ e.cursor = b64encode(join(values))
                      /\ o = <<"-id", "-name">> =>
                            e.cursor.text = int_to_text(e.node.id) \o <<"|">> \o e.node.name
                      /\ o = <<"id">> => e.cursor.text = int_to_text(e.node.id)
            /\ page.edges # <<>> =>
                  /\ page.start_cursor = Some(page.edges[1].cursor)
                  /\ page.end_cursor = Some(page.edges[Len(page.edges)].cursor)

C13_Witness ==
    /\ req.op = "list"
    /\ req.iterable # None
    /\ resp.error = "none"
    /\ req.args.orderBy = <<"-id", "-name">>
    /\ Len(resp.page[1].edges) = 2
    /\ resp.page[1].edges[1].cursor.text = <<"2", "|", "a">>

\* C18: the answer to a list request is a function of the rows the actor can
\* view: on the table with every row the actor cannot view taken away (from
\* the relation too) the same request has the same possible answers, edges,
\* start and end cursor, hasNextPage, hasPreviousPage, length and error alike.
\* Two tables with the same viewable rows therefore answer alike.
C18_MetadataHidesInvisible ==
    req.op = "list" =>
        LET visible == get_viewable(objects_all(pre), req.user)
            here == IF req.iterable = None THEN None
                    ELSE Some(QuerySet(req.iterable[1], <<>>))
            there == IF req.iterable = None THEN None
                     ELSE Some(QuerySet(req.iterable[1] \cap visible, <<>>))
            answers == connection_resolver(visible, req.user, req.args, there)
        IN  /\ resp \in answers
            /\ answers = connection_resolver(pre, req.user, req.args, here)

C18_Witness ==
    /\ req.op = "list"
    /\ resp.error = "none"
    /\ req.args.first = Some(1)
    /\ \E g \in pre : req.user \notin g.users
    /\ Len(resp.page[1].edges) = 1
    /\ ~resp.page[1].has_next_page
    /\ resp.page[1].length = 1

\* The ordering leaves no two of the rows tied.
TotalOn(rows, ordering) ==
    /\ ordering # <<>>
    /\ valid_ordering(ordering)
    /\ \A g, h \in rows : g # h => row_before(ordering, g, h) \/ row_before(ordering, h, g)

\* What the client has of a row: its ordering columns.
Key(g) == [id |-> g.id, name |-> g.name]
SeenIds == {walk.seen[i].id : i \in 1..Len(walk.seen)}

\* C11 as stated, for the orderings the paginator takes (every token in the
\* same direction): over an unchanged table and an orderBy that leaves no two
\* viewable rows tied, following after = endCursor from the first page until
\* hasNextPage is false never fails, ends after at most one request per
\* viewable row (and one for an empty list), and the pages put together are
\* the actor's viewable rows in orderBy order, each once.
C11_WalkYieldsViewable ==
    LET viewable == get_viewable(objects_all(db), walk.user) IN
    (walk.phase # "idle" /\ ~walk.changed /\ directions_match(walk.orderBy)
        /\ TotalOn(viewable, walk.orderBy)) =>
        /\ walk.phase # "failed"
        /\ walk.pages <= Cardinality(viewable) + 1
        /\ \E s \in listings(viewable, walk.orderBy) :
              /\ Len(walk.seen) <= Len(s)
              /\ \A i \in 1..Len(walk.seen) : walk.seen[i] = Key(s[i])
              /\ walk.phase = "done" => Len(walk.seen) = Len(s)

\* C12 as stated: decoding the cursor of any edge the list returns gives the
\* texts of that row's orderBy values, one per orderBy token, in order,
\* whatever characters the values hold.
C12_CursorRoundTrip ==
    (req.op = "list" /\ resp.error = "none") =>
        \A i \in 1..Len(resp.page[1].edges) :
            LET e == resp.page[1].edges[i] IN
            decode_cursor(e.cursor) = position_from_instance(req.args.orderBy, e.node)

\* The ordering is one the paginator takes and it holds the primary key, so
\* no two rows ever tie under it.
KeyedOrdering(ordering) ==
    /\ valid_ordering(ordering)
    /\ directions_match(ordering)
    /\ \E i \in 1..Len(ordering) : lstrip_dash(ordering[i]) = "id"

PlainListRequest ==
    /\ req.op = "list"
    /\ (req.args.first = None) # (req.args.last = None)
    /\ req.args.first # Some(0) /\ req.args.last # Some(0)
    /\ req.args.after # Some(Garbage) /\ req.args.before # Some(Garbage)
    /\ directions_match(req.args.orderBy)

\* C21 as stated, for requests with nothing else wrong: a list request whose
\* orderBy names an unknown field is rejected with the invalid-ordering
\* error before the storage is touched (no count, no page fetch), and no page
\* is returned.
C21_UnknownFieldRejectedEarly ==
    (PlainListRequest /\ ~valid_ordering(req.args.orderBy)) =>
        /\ resp.error = "FieldError"
        /\ resp.page = None
        /\ ~Did("count") /\ ~Did("page")

\* C22: in every returned page startCursor and endCursor are both null when
\* there are no edges; otherwise startCursor is the cursor of the first edge
\* and endCursor that of the last, and every edge's cursor is the paginator's
\* cursor of the edge's own node under the request's ordering.
C22_PageCursors ==
    (req.op = "list" /\ resp.error = "none") =>
        LET page == resp.page[1]
            n == Len(page.edges)
        IN  /\ n = 0 => page.start_cursor = None /\ page.end_cursor = None
            /\ n > 0 =>
                  /\ page.start_cursor = Some(page.edges[1].cursor)
                  /\ page.end_cursor = Some(page.edges[n].cursor)
            /\ \A i \in 1..n :
                  Some(page.edges[i].cursor) =
                      paginator_cursor(req.args.orderBy, page.edges[i].node)

C22_Witness ==
    /\ req.op = "list"
    /\ resp.error = "none"
    /\ Len(resp.page[1].edges) = 2
    /\ resp.page[1].start_cursor # resp.page[1].end_cursor
    /\ resp.page[1].end_cursor = Some(resp.page[1].edges[2].cursor)

\* C24 as stated: every row a successful create/update hands back, as result
\* or as the edge's node, is a row the actor can view when the payload is built.
C24_ReturnedEntityViewable ==
    (req.op = "mutate" /\ resp.error = "none") =>
        /\ resp.result # None => can_view(objects_all(db), req.user, resp.result[1])
        /\ resp.edge # None => can_view(objects_all(db), req.user, resp.edge[1].node)

\* C25: a create/update request that reaches authorization (edge precondition
\* met, target found if an id came, input valid) evaluates exactly one policy
\* predicate: can_change on the stored row as it was before the update when
\* the id resolved to a row, can_add on the candidate built from the input
\* when no id came; the predicate's answer decides between the permission
\* error and the save, through the Create field and the Update field alike.
C25_OnePolicyPredicate ==
    (req.op = "mutate" /\ EdgePreconditionMet /\ TargetFound /\ is_valid(req.input)) =>
        /\ Cardinality({i \in 1..Len(resp.steps) :
                          resp.steps[i] \in {"can_add", "can_change"}}) = 1
        /\ IF Target # None
           THEN /\ Did("can_change")
                /\ (resp.error = "PermissionDenied")
                     <=> ~can_change(objects_all(pre), req.user, Target[1])
           ELSE /\ Did("can_add")
                /\ (resp.error = "PermissionDenied")
                     <=> ~can_add(req.user, build_obj(req.input))
        /\ Did("save") <=> resp.error # "PermissionDenied"

C25_Witness ==
    /\ req.op = "mutate"
    /\ req.field = "Group__Create"
    /\ Target # None
    /\ req.input.name = DISALLOW_CREATION
    /\ Did("can_change")
    /\ resp.ok = Some(TRUE)

\* The policy's answer for the second request's mutation on what its check
\* read: the row its lookup returned, or the unsaved candidate.
DecisionAtCheck ==
    IF pending.kind = "delete"
    THEN can_delete(objects_all({pending.instance[1]}), pending.user, pending.instance[1])
    ELSE IF pending.instance # None
    THEN can_change(objects_all({pending.instance[1]}), pending.user, pending.instance[1])
    ELSE can_add(pending.user, build_obj(pending.input[1]))

\* C23: the permission check and the write of a mutation are two steps with
\* nothing holding the table still between them.  A write happens only after
\* the policy said yes on what the check read, and is not decided again on
\* the table it is applied to: the witness is a run where that answer has
\* become no by the time of the write (another request deleted the row) and
\* the write is applied all the same.
C23_WriteDecidedAtCheck ==
    /\ pending.phase \in {"checked", "written"} =>
          /\ DecisionAtCheck
          /\ pending.kind = "mutate" => is_valid(pending.input[1])
          /\ pending.kind = "mutate" =>
                (pending.instance = None <=> pending.input[1].id = None)
          /\ pending.kind = "delete" => pending.instance # None
    /\ pending.stale => pending.phase = "written" /\ pending.instance # None
    /\ pending.applied => pending.phase = "written"

C23_Witness ==
    /\ pending.phase = "written"
    /\ pending.kind = "mutate"
    /\ pending.applied
    /\ DecisionAtCheck
    /\ pending.stale
    /\ \E g \in db : g.id = pending.instance[1].id /\ g.name = pending.input[1].name

====
